---- MODULE Spec2Model ----
(***************************************************************************)
(* State-machine model of the DataLayer class of uMap                      *)
(* (src/umap/static/umap/js/modules/permissions.js, lines 337-1540): the   *)
(* feature index (_index / _features), the save protocol with version      *)
(* tokens and conflict retry, the load pipeline and the remote-data        *)
(* fetcher.  One DataLayer ("self") is modelled together with the owner's  *)
(* registries (umap.datalayers, umap.datalayersIndex) and the requests     *)
(* that are in flight.  Every await of the source is a suspension point:   *)
(* the part of a handler before the await is one action, the part after    *)
(* it (run when the response arrives) another.                             *)
(***************************************************************************)
EXTENDS Integers, Sequences, FiniteSets, Bags, TLC

\* ------------------------------------------------------------------ bounds
\* Number of feature objects (Leaflet stamps) a layer may hold at once.
MaxStamp == 2
\* Number of requests / promises that may be pending at once.
MaxPending == 2

\* ------------------------------------------------------------------ inputs
\* Geojson elements (identified by their feature id) the inputs are built of.
Elems == {1, 2}
\* Feature collections a server / remote source / parser may deliver.
Payloads == {<<>>, <<1>>, <<1, 2>>}
\* Feature collections a save response may carry (conflict resolved upstream).
MergedPayloads == {<<1>>}
\* Version tokens a response may carry (X-Datalayer-Version); 0 is "absent".
Tokens == {1, 2}
NoVersion == 0
EditModes == {"advanced", "disabled"}
\* The id of the layer (data.id, or the UUID generated for it), no id, and
\* the id of another object.
LayerId == "layer"
NoId == "none"
OtherId == "other"
\* options, reduced to the fields the modelled code reads:
\* remote  = options.remoteData has url and format (isRemoteLayer)
\* dynamic = options.remoteData.dynamic
\* id      = options.id (NoId: options has no id)
\* OptionSet: the options of a layer whose id is LayerId.
OptionSet ==
  {o \in [remote : BOOLEAN, dynamic : BOOLEAN, editMode : EditModes,
          id : {LayerId}] :
     o.dynamic => o.remote}
Stamps == 1..MaxStamp
\* The stamp of a feature object that does not belong to the layer.
Foreign == 0
\* Property names, as their characters: "", "_n", "g" and "n".
PropNames == {<<>>, <<"_", "n">>, <<"g">>, <<"n">>}
\* What the value of a property may be ("absent": the feature has no such key).
ValueKinds == {"string", "number", "boolean", "object", "array", "null"}
PropertySets == [PropNames -> ValueKinds \cup {"absent"}]
NoProperties == [name \in PropNames |-> "absent"]
\* The properties of the elements: 1 has none, 2 has the three of
\* {"n": "A", "g": {"x": 1}, "_n": 2}.
elementProperties(e) ==
  IF e = 2
    THEN [name \in PropNames |->
            CASE name = <<"n">> -> "string"
              [] name = <<"g">> -> "object"
              [] name = <<"_", "n">> -> "number"
              [] OTHER -> "absent"]
    ELSE NoProperties
\* absent / null / undefined geojson
NoGeo == [some |-> FALSE, feats |-> <<>>]
Geo(feats) == [some |-> TRUE, feats |-> feats]

VARIABLES
  _index,            \* this._index: array of feature stamps (display order)
  _features,         \* this._features: stamp -> feature (0 = no such key)
  _geojson,          \* this._geojson
  _geojson_bk,       \* this._geojson_bk
  _propertiesIndex,  \* this._propertiesIndex
  options,           \* this.options
  _backupOptions,    \* this._backupOptions
  _referenceVersion, \* this._referenceVersion (NoVersion = undefined)
  _isDeleted,        \* this._isDeleted
  isDirty,           \* ServerStored dirty status of the layer
  _loaded,           \* this._loaded
  _dataloaded,       \* this._dataloaded
  _loading,          \* this._loading
  visible,           \* leafletMap.hasLayer(this.layer)
  datalayers,        \* stamp(this) is a key of umap.datalayers
  datalayersIndex,   \* umap.datalayersIndex
  pending,           \* bag of the requests and promises awaited
  alert,             \* the conflict alert shown, holding its retry closure
  accepted,          \* history: the snapshot the server accepted last
  permissions,       \* a MapPermissions or DataLayerPermissions object, with
                     \* the permissions its owner stores and its requests
  ev                 \* the last operation, what it sent and returned

vars ==
  <<_index, _features, _geojson, _geojson_bk, _propertiesIndex, options,
    _backupOptions,
    _referenceVersion, _isDeleted, isDirty, _loaded, _dataloaded, _loading,
    visible, datalayers, datalayersIndex, pending, alert, accepted,
    permissions, ev>>

\* The current state as one record, so that the methods of the class can be
\* written as functions from state to state and composed as the code calls them.
Cur ==
  [_index |-> _index, _features |-> _features, _geojson |-> _geojson,
   _geojson_bk |-> _geojson_bk, _propertiesIndex |-> _propertiesIndex,
   options |-> options,
   _backupOptions |-> _backupOptions, _referenceVersion |-> _referenceVersion,
   _isDeleted |-> _isDeleted, isDirty |-> isDirty, _loaded |-> _loaded,
   _dataloaded |-> _dataloaded, _loading |-> _loading, visible |-> visible,
   datalayers |-> datalayers, datalayersIndex |-> datalayersIndex,
   pending |-> pending, alert |-> alert, accepted |-> accepted,
   full |-> FALSE, skipped |-> 0]

\* The step taken: the state becomes w, provided the bounds allow it (full:
\* the step needed more stamps than MaxStamp).  skipped counts the errors
\* the step showed for geometries it skipped.
Commit(w, e) ==
  /\ ~w.full
  /\ BagCardinality(w.pending) <= MaxPending
  /\ _index' = w._index
  /\ _features' = w._features
  /\ _geojson' = w._geojson
  /\ _geojson_bk' = w._geojson_bk
  /\ options' = w.options
  /\ _backupOptions' = w._backupOptions
  /\ _referenceVersion' = w._referenceVersion
  /\ _isDeleted' = w._isDeleted
  /\ isDirty' = w.isDirty
  /\ _loaded' = w._loaded
  /\ _dataloaded' = w._dataloaded
  /\ _loading' = w._loading
  /\ visible' = w.visible
  /\ datalayers' = w.datalayers
  /\ datalayersIndex' = w.datalayersIndex
  /\ pending' = w.pending
  /\ accepted' = w.accepted
  /\ _propertiesIndex' = w._propertiesIndex
  /\ alert' = w.alert
  /\ permissions' = permissions
  /\ ev' = e

\* The record of a step.  op: the operation; force: its argument; hdr: the
\* reference header of the request answered; version: the version token of
\* the response; sent: the request the step sent ("none" if none); ret: what
\* the operation returned; sweep: it called umap.saveAll().
\* arg: the feature properties, the position or the geojson it was given;
\* val: the stamp of the feature it returned (ret = "feature").
Ev(op) ==
  [op |-> op, force |-> FALSE, hdr |-> NoVersion, version |-> NoVersion,
   sent |-> "none", ret |-> "none", sweep |-> FALSE, arg |-> <<>>, val |-> 0]

\* A request or promise awaited.  kind: "get" (fetchData), "save" (save ->
\* _trySave), "retry" (_trySave from the conflict callback), "delete"
\* (saveDelete), "remote" (fetchRemoteData), "parse" (formatter.parse).
\* hdr: the X-Datalayer-Reference header (NoVersion = no header); feats: the
\* features of the geojson submitted (or parsed); cont: fetchData awaits it.
Req(kind, hdr, feats, cont) ==
  [kind |-> kind, hdr |-> hdr, feats |-> feats, cont |-> cont]

\* The history of what the server holds: the features and the options of the
\* snapshot it sent or accepted last (some: there is one).  It is kept
\* (track) by the specifications whose properties read it.
Untracked ==
  [track |-> FALSE, some |-> FALSE, feats |-> <<>>, options |-> <<>>]
NoSnapshot ==
  [track |-> TRUE, some |-> FALSE, feats |-> <<>>, options |-> <<>>]

\* The server has sent or accepted feats; the layer's options are those of w.
serverHolds(w, feats) ==
  IF w.accepted.track
    THEN [w EXCEPT !.accepted = [track |-> TRUE, some |-> TRUE,
                                 feats |-> feats, options |-> w.options]]
    ELSE w

\* No conflict alert is shown; otherwise alert = Geo(the snapshot to resubmit).
NoAlert == NoGeo

\* ------------------------------------------------------- array primitives
\* Array.prototype.indexOf: the 0-based position of x, or -1.
indexOf(seq, x) ==
  IF \E i \in 1..Len(seq) : seq[i] = x
    THEN (CHOOSE i \in 1..Len(seq) :
            seq[i] = x /\ \A j \in 1..(i - 1) : seq[j] # x) - 1
    ELSE -1

\* Array.prototype.splice(start, 1): a negative start counts from the end.
splice1(seq, start) ==
  LET from == IF start < 0
                THEN (IF Len(seq) + start < 0 THEN 0 ELSE Len(seq) + start)
                ELSE (IF start > Len(seq) THEN Len(seq) ELSE start)
  IN  SubSeq(seq, 1, from) \o SubSeq(seq, from + 2, Len(seq))

Range(seq) == {seq[i] : i \in 1..Len(seq)}
Keys(f) == {s \in Stamps : f[s] # 0}
NoFeatures == [s \in Stamps |-> 0]

\* ------------------------------------------------------------ predicates
createdOnServer(w) == w._referenceVersion # NoVersion
\* isLoaded() without the test of the metadata.
isLoadedUnchecked(w) == TRUE

isLoaded(w) == ~createdOnServer(w) \/ w._loaded
hasDataLoaded(w) == w._dataloaded
isRemoteLayer(w) == w.options.remote
hasDynamicData(w) == isRemoteLayer(w) /\ w.options.dynamic
isVisible(w) == w.visible
getRank(w) == indexOf(w.datalayersIndex, "self")

\* ---------------------------------------------------------- property index
\* The typeof operator on a value of the kind.
typeOf(kind) == IF kind \in {"object", "array", "null"} THEN "object" ELSE kind

\* The UTF-16 code unit of a character.
charCode(c) == CASE c = "_" -> 95 [] c = "g" -> 103 [] c = "n" -> 110

\* The default comparison of Array.prototype.sort: strings by code units.
RECURSIVE lexLeq(_, _)
lexLeq(a, b) ==
  IF a = <<>> THEN TRUE
  ELSE IF b = <<>> THEN FALSE
  ELSE IF charCode(Head(a)) # charCode(Head(b))
         THEN charCode(Head(a)) < charCode(Head(b))
         ELSE lexLeq(Tail(a), Tail(b))

\* this._propertiesIndex.sort()
RECURSIVE sortNames(_)
sortNames(names) ==
  IF names = <<>> THEN <<>>
  ELSE LET head == sortNames(SubSeq(names, 1, Len(names) - 1))
           n == names[Len(names)]
           k == Cardinality({i \in 1..Len(head) : lexLeq(head[i], n)})
       IN  SubSeq(head, 1, k) \o <<n>> \o SubSeq(head, k + 1, Len(head))

\* (An indexProperty that does not look for the reserved prefix.)
indexPropertyReserved(w, name) ==
  IF name = <<>> THEN w
  ELSE IF name \in Range(w._propertiesIndex) THEN w
  ELSE [w EXCEPT !._propertiesIndex = sortNames(Append(@, name))]

indexProperty(w, name) ==
  IF name = <<>> THEN w
  ELSE IF Head(name) = "_" THEN w
  ELSE IF name \in Range(w._propertiesIndex) THEN w
  ELSE [w EXCEPT !._propertiesIndex = sortNames(Append(@, name))]

\* for (const i in properties) if (typeof properties[i] !== 'object') ...
\* The names are taken in some order; the index is sorted after each push.
RECURSIVE indexEach(_, _, _)
indexEach(w, properties, names) ==
  IF names = {} THEN w
  ELSE LET i == CHOOSE n \in names : TRUE
           w1 == IF typeOf(properties[i]) # "object" THEN indexProperty(w, i)
                 ELSE w
       IN  indexEach(w1, properties, names \ {i})

indexProperties(w, properties) ==
  indexEach(w, properties, {n \in PropNames : properties[n] # "absent"})

\* ----------------------------------------------------------- feature index
addFeature(w, id, feature) ==
  indexProperties([w EXCEPT !._index = Append(@, id), !._features[id] = feature],
                  elementProperties(feature))

removeFeature(w, id) ==
  [w EXCEPT !._index = splice1(@, indexOf(@, id)),
            !._features = [s \in Stamps |-> IF s = id THEN 0 ELSE @[s]]]

\* getFeatureByIndex(index): the stamp of the feature returned, 0 when it
\* returns undefined (the array has no such position, or the map no such key).
getFeatureByIndex(w, index) ==
  LET at == IF index = -1 THEN Len(w._index) - 1 ELSE index
      id == IF at >= 0 /\ at < Len(w._index) THEN w._index[at + 1] ELSE 0
  IN  IF id \in Stamps /\ w._features[id] # 0 THEN id ELSE 0

\* ----------------------------------------------------------- materializing
\* The value of the sort key (umap.getProperty('sortKey')) of each element.
sortValue(e) == CASE e = 1 -> 2 [] e = 2 -> 1 [] OTHER -> 1

\* Object.values(this._features), as stamps: integer keys come in ascending
\* order.
RECURSIVE objectKeys(_, _)
objectKeys(features, from) ==
  IF from > MaxStamp THEN <<>>
  ELSE (IF features[from] # 0 THEN <<from>> ELSE <<>>)
         \o objectKeys(features, from + 1)

\* Utils.sortFeatures on feature objects, given by their stamps.
RECURSIVE sortStamps(_, _)
sortStamps(features, stamps) ==
  IF stamps = <<>> THEN <<>>
  ELSE LET head == sortStamps(features, SubSeq(stamps, 1, Len(stamps) - 1))
           s == stamps[Len(stamps)]
           k == Cardinality({i \in 1..Len(head) :
                               sortValue(features[head[i]]) <= sortValue(features[s])})
       IN  SubSeq(head, 1, k) \o <<s>> \o SubSeq(head, k + 1, Len(head))

reindex(w) ==
  [w EXCEPT !._index = sortStamps(w._features, objectKeys(w._features, 1))]

\* Utils.sortFeatures: sorts the collection in place by the sort key; equal
\* keys keep their input order.
RECURSIVE sortFeatures(_)
sortFeatures(coll) ==
  IF coll = <<>> THEN <<>>
  ELSE LET head == sortFeatures(SubSeq(coll, 1, Len(coll) - 1))
           e == coll[Len(coll)]
           k == Cardinality({i \in 1..Len(head) :
                               sortValue(head[i]) <= sortValue(e)})
       IN  SubSeq(head, 1, k) \o <<e>> \o SubSeq(head, k + 1, Len(head))

\* stamp() of a new object: an id no object of the layer has.  Ids are only
\* compared for equality with those of the layer's features, so the least
\* id that is not in use stands for the new one; 0 when MaxStamp are in use.
newStamp(w) ==
  LET free == Stamps \ (Keys(w._features) \cup Range(w._index))
  IN  IF free = {} THEN 0 ELSE CHOOSE s \in free : \A t \in free : s <= t

\* makeFeature: a new feature object is built and added.
\* The geometry.type of the elements; 1 and 2 are those of Elems.
geometryType(e) ==
  CASE e = 1 -> "Point"
    [] e = 2 -> "LineString"
    [] e = 3 -> "MultiPoint"
    [] e = 4 -> "MultiPolygon"
    [] OTHER -> "undefined"

\* The switch of makeFeature: the class of the feature built, "none" for the
\* default branch, which shows an error and builds nothing.
featureClass(type) ==
  CASE type = "Point" -> "Point"
    [] type \in {"MultiLineString", "LineString"} -> "LineString"
    [] type \in {"MultiPolygon", "Polygon"} -> "Polygon"
    [] OTHER -> "none"

makeFeature(w, geojson) ==
  IF featureClass(geometryType(geojson)) = "none"
    THEN [w EXCEPT !.skipped = @ + 1]
  ELSE IF newStamp(w) = 0 THEN [w EXCEPT !.full = TRUE]
  ELSE addFeature(w, newStamp(w), geojson)

\* (A loop that stops at the first element it cannot build.)
RECURSIVE makeEachAbort(_, _)
makeEachAbort(w, coll) ==
  IF coll = <<>> \/ featureClass(geometryType(Head(coll))) = "none" THEN w
  ELSE makeEachAbort(makeFeature(w, Head(coll)), Tail(coll))

RECURSIVE makeEach(_, _)
makeEach(w, coll) ==
  IF coll = <<>> THEN w
  ELSE makeEach(makeFeature(w, Head(coll)), Tail(coll))

makeFeatures(w, geojson) == makeEach(w, sortFeatures(geojson.feats))

addData(w, geojson) == makeFeatures(w, geojson)

onDataLoaded(w) == [w EXCEPT !._dataloaded = TRUE]

\* makeFeatures has sorted geojson.features in place before it is kept.
fromGeoJSON(w, geojson) ==
  onDataLoaded([addData(w, geojson) EXCEPT
                  !._geojson = Geo(sortFeatures(geojson.feats))])

backupData(w) == [w EXCEPT !._geojson_bk = w._geojson]

clear(w) ==
  LET w1 == [w EXCEPT !._features = NoFeatures, !._index = <<>>]
  IN  IF w1._geojson.some
        THEN [backupData(w1) EXCEPT !._geojson = NoGeo]
        ELSE w1

\* ------------------------------------------------------------------ options
defaultOptions ==
  [remote |-> FALSE, dynamic |-> FALSE, editMode |-> "advanced", id |-> NoId]

\* The options of a layer constructed with no data but its id.
newOptions == [defaultOptions EXCEPT !.id = LayerId]

backupOptions(w) == [w EXCEPT !._backupOptions = w.options]
resetOptions(w) == [w EXCEPT !.options = w._backupOptions]

\* Object.assign(this.options, o): the keys of o replace those of options.
updateOptions(w, o) ==
  [w EXCEPT !.options =
     [k \in DOMAIN @ |-> IF k \in DOMAIN o THEN o[k] ELSE @[k]]]

setOptions(w, o) == updateOptions([w EXCEPT !.options = defaultOptions], o)

\* ---------------------------------------------------------- owner, display
connectToMap(w) ==
  [w EXCEPT !.datalayers = TRUE,
            !.datalayersIndex =
               IF "self" \in Range(@) THEN @ ELSE Append(@, "self")]

hide(w) == [w EXCEPT !.visible = FALSE]

\* ------------------------------------------------------------- load pipeline
\* fetchData up to its await: the guards, the in-flight flag and the read.
\* fetchData() without the test of _loading.
fetchDataUnguarded(w) ==
  IF ~createdOnServer(w) THEN w
  ELSE [w EXCEPT !._loading = TRUE,
                 !.pending = @ (+) SetToBag({Req("get", NoVersion, <<>>, FALSE)})]

fetchData(w) ==
  IF ~createdOnServer(w) \/ w._loading THEN w
  ELSE [w EXCEPT !._loading = TRUE,
                 !.pending = @ (+) SetToBag({Req("get", NoVersion, <<>>, FALSE)})]

\* A fetcher that does not look at the visibility of the layer.
remoteFetchesHidden(w, force) ==
  /\ isRemoteLayer(w)
  /\ ~(~hasDynamicData(w) /\ hasDataLoaded(w) /\ ~force)

\* Whether fetchRemoteData(force) passes its three guards and sends a request.
remoteFetches(w, force) ==
  /\ isRemoteLayer(w)
  /\ ~(~hasDynamicData(w) /\ hasDataLoaded(w) /\ ~force)
  /\ isVisible(w)

\* fetchRemoteData up to its await; cont: fromUmapGeoJSON awaits the call.
fetchRemoteData(w, force, cont) ==
  IF remoteFetches(w, force)
    THEN [w EXCEPT !.pending =
            @ (+) SetToBag({Req("remote", NoVersion, <<>>, cont)})]
    ELSE w

\* Object o with key k set to v (o[k] = v in the source).
withKey(o, k, v) == [x \in DOMAIN o \cup {k} |-> IF x = k THEN v ELSE o[x]]

\* (A fetchData that leaves the editMode of the payload as it came.)
keepEditModeNot(w, o) == o

\* fetchData: geojson._umap_options.editMode = this.options.editMode
keepEditMode(w, o) == withKey(o, "editMode", w.options.editMode)

\* The end of fromUmapGeoJSON and of fetchData's success branch.
fetchDataDone(w) ==
  [backupOptions([w EXCEPT !._loaded = TRUE]) EXCEPT !._loading = FALSE]

\* fromUmapGeoJSON, called by fetchData with the geojson read; a remote layer
\* awaits fetchRemoteData, whose request (if one is sent) carries the rest.
fromUmapGeoJSON(w, geojson, o) ==
  LET w1 == setOptions(w, withKey(o, "id", w.options.id))
  IN  IF isRemoteLayer(w1)
        THEN IF remoteFetches(w1, FALSE)
               THEN fetchRemoteData(w1, FALSE, TRUE)
               ELSE fetchDataDone(w1)
        ELSE fetchDataDone(fromGeoJSON(w1, geojson))

\* A response whose version header is dropped.
setReferenceVersionDropped(w, version) == w

setReferenceVersion(w, version) == [w EXCEPT !._referenceVersion = version]

\* ------------------------------------------------------------- dirty status
onDirty(w, status) ==
  IF status
    THEN (IF ~isLoaded(w) THEN fetchData(w) ELSE w)
    ELSE [w EXCEPT !._isDeleted = FALSE]

\* ServerStored "set isDirty": records the status and calls onDirty.
setIsDirty(w, status) == onDirty([w EXCEPT !.isDirty = status], status)

setIsDeleted(w, status) ==
  LET w1 == [w EXCEPT !._isDeleted = status]
  IN  IF status THEN setIsDirty(w1, status) ELSE w1

\* The save coordinator: an object whose save() returned true is no longer
\* dirty; any other result leaves it in the queue of dirty objects.
saveManagerSave(w, status) ==
  IF status THEN [w EXCEPT !.isDirty = FALSE] ELSE w

show(w) ==
  LET w1 == [w EXCEPT !.visible = TRUE]
  IN  IF ~isLoaded(w1) THEN fetchData(w1) ELSE w1

redraw(w) == IF ~isVisible(w) THEN w ELSE show(hide(w))

erase(w) ==
  LET w1 == hide(w)
      w2 == [w1 EXCEPT !.datalayersIndex = splice1(@, getRank(w1))]
  IN  [clear(w2) EXCEPT !._loaded = FALSE, !._dataloaded = FALSE]

_delete(w) == erase(setIsDeleted(w, TRUE))

empty(w) == IF isRemoteLayer(w) THEN w ELSE setIsDirty(clear(w), TRUE)

\* reset(): its fetchRemoteData() is not awaited, and show() awaits nothing
\* once _loaded is set.
reset(w) ==
  LET w1 == IF ~createdOnServer(w) THEN erase(w) ELSE w
      w2 == hide(clear(resetOptions(w1)))
      w3 == IF isRemoteLayer(w2) THEN fetchRemoteData(w2, FALSE, FALSE)
            ELSE IF w2._geojson_bk.some THEN fromGeoJSON(w2, w2._geojson_bk)
            ELSE w2
  IN  setIsDirty(show([w3 EXCEPT !._loaded = TRUE]), FALSE)

\* restore(version), once the version is read: the options of the payload.
restoreOptions(w, o) == setOptions(w, o)

\* restore(version), once the version is read; hasOptions: the payload has
\* _umap_options.
restoreRead(w, geojson, hasOptions, o) ==
  LET w1 == IF hasOptions THEN restoreOptions(w, o) ELSE w
      w2 == empty(w1)
      w3 == IF isRemoteLayer(w2) THEN fetchRemoteData(w2, FALSE, FALSE)
            ELSE addData(w2, geojson)
  IN  setIsDirty(w3, TRUE)

\* ------------------------------------------------------------ save protocol
RECURSIVE toGeoJSONs(_, _)
toGeoJSONs(features, index) ==
  IF index = <<>> THEN <<>>
  ELSE <<features[Head(index)]>> \o toGeoJSONs(features, Tail(index))

featuresToGeoJSON(w) == toGeoJSONs(w._features, w._index)

umapGeoJSON(w) ==
  Geo(IF isRemoteLayer(w) THEN <<>> ELSE featuresToGeoJSON(w))

\* The header of a save: the reference version, when there is one.
saveHeaders(w) == w._referenceVersion

\* The success branch of _trySave.  data.geojson is the collection the
\* response carries (NoGeo: none), data.opts the metadata it carries.
trySaveSuccess(w, data, version) ==
  LET w1 == IF data.geojson.some
              THEN fromGeoJSON(clear(w), data.geojson)
              ELSE w
      w2 == setReferenceVersion(updateOptions(w1, data.opts), version)
      w3 == connectToMap(backupData(backupOptions(w2)))
  IN  redraw([w3 EXCEPT !._loaded = TRUE])

\* The 412 branch of _trySave: the conflict alert is shown with its callback,
\* which holds the url and the form data of the request.
\* (A 412 branch that also takes the layer out of the dirty objects.)
trySaveConflictClean(w, r) ==
  setIsDirty([w EXCEPT !.alert = Geo(r.feats)], FALSE)

trySaveConflict(w, r) == [w EXCEPT !.alert = Geo(r.feats)]

\* save(), after _trySave has returned: the snapshot sent becomes _geojson.
saveTail(w, r) == [w EXCEPT !._geojson = Geo(r.feats)]

\* The conflict callback after its _trySave returned status.
\* (A callback that leaves the dirty status to the caller.)
retryTailNoClear(w, status) == w

retryTail(w, status) == IF status THEN setIsDirty(w, FALSE) ELSE w

\* (A callback that calls umap.saveAll() whatever the status.)
retrySweepsAlways(status) == TRUE

\* Whether the conflict callback calls umap.saveAll() after its _trySave
\* returned status.
retrySweeps(status) == status

\* (A saveDelete that keeps the layer when its request failed.)
saveDeleteTailIfOk(w, ok) == IF ok THEN [w EXCEPT !.datalayers = FALSE] ELSE w

\* saveDelete after its request (if any), whose outcome ok it does not look
\* at: the layer leaves umap.datalayers.
saveDeleteTail(w, ok) == [w EXCEPT !.datalayers = FALSE]

\* (A saveDelete that posts whether or not the server knows the layer.)
saveDeletePosts(w) ==
  [w EXCEPT !.pending = @ (+) SetToBag({Req("delete", NoVersion, <<>>, FALSE)})]

\* saveDelete up to its await, or to its return when it awaits nothing.
saveDelete(w) ==
  IF createdOnServer(w)
    THEN [w EXCEPT !.pending =
            @ (+) SetToBag({Req("delete", NoVersion, <<>>, FALSE)})]
    ELSE saveDeleteTail(w, TRUE)

\* (A fetcher that clears the layer before it looks at the response.)
remoteResponseCleared(w, ok, body) ==
  IF ok
    THEN [clear(w) EXCEPT !.pending =
            @ (+) SetToBag({Req("parse", NoVersion, body, FALSE)})]
    ELSE clear(w)

\* fetchRemoteData once its request is answered: an OK response clears the
\* layer and hands the body to the parser; anything else does nothing.
remoteResponse(w, ok, body) ==
  IF ok
    THEN [clear(w) EXCEPT !.pending =
            @ (+) SetToBag({Req("parse", NoVersion, body, FALSE)})]
    ELSE w

\* ------------------------------------------------------------------ actions
\* The state once request r has been answered.
Without(w, r) == [w EXCEPT !.pending = @ (-) SetToBag({r})]

\* The kind of the request sent by the step from the current state to w.
Sent(w) ==
  LET new == BagToSet(w.pending (-) pending)
  IN  IF new = {} THEN "none" ELSE (CHOOSE r \in new : TRUE).kind

\* The requests of a kind that are awaited.
Awaited(kind) == {r \in BagToSet(pending) : r.kind = kind}

\* A feature edit marks its layer dirty.
edited(w) == setIsDirty(w, TRUE)

\* The layer after construction, but for its property index.
InitLayer ==
  /\ _index = <<>>
  /\ _features = NoFeatures
  /\ _geojson = NoGeo
  /\ _geojson_bk = NoGeo
  /\ options \in OptionSet
  /\ _backupOptions = options
  /\ _referenceVersion \in {NoVersion, 1}
  /\ _isDeleted = FALSE
  /\ isDirty = (_referenceVersion = NoVersion)
  /\ _loaded = FALSE
  /\ _dataloaded = FALSE
  /\ _loading = FALSE
  /\ visible \in (IF _referenceVersion = NoVersion THEN BOOLEAN ELSE {FALSE})
  /\ datalayers = TRUE
  /\ datalayersIndex = <<"a", "self", "b">>
  /\ pending = EmptyBag
  /\ alert = NoAlert

\* ---------------------------------------------------------------- permissions
\* The values of edit_status (and of the other properties edited).
Statuses == {1, 2}

\* new MapPermissions(umap) / new DataLayerPermissions(umap, datalayer): the
\* properties are those the owner stores (umap.properties.permissions,
\* datalayer.options.permissions: stored), the object is not dirty.
\* pending: the bag of the form data of its requests in flight.
newPermissions(class, status) ==
  [class |-> class, properties |-> [edit_status |-> status],
   stored |-> [edit_status |-> status], isDirty |-> FALSE,
   pending |-> EmptyBag]

\* A field of the permissions form is edited: the form marks the object dirty.
editPermissions(p, status) ==
  [p EXCEPT !.properties.edit_status = status, !.isDirty = TRUE]

\* (A save() that does not look at isDirty.)
permissionsSaveAlways(p) ==
  [p EXCEPT !.pending = @ (+) SetToBag({p.properties})]

\* MapPermissions.save / DataLayerPermissions.save up to the await.
permissionsSave(p) ==
  IF ~p.isDirty THEN p
  ELSE [p EXCEPT !.pending = @ (+) SetToBag({p.properties})]

\* MapPermissions.commit / DataLayerPermissions.commit:
\* Object.assign({}, stored, this.properties)
permissionsCommit(p) == [p EXCEPT !.stored = p.properties @@ p.stored]

\* (A save() that commits whatever the outcome of the request.)
permissionsSaveTailCommits(p, r, error) ==
  permissionsCommit([p EXCEPT !.pending = @ (-) SetToBag({r})])

\* save() after the await: commit() when the request had no error.
permissionsSaveTail(p, r, error) ==
  LET p1 == [p EXCEPT !.pending = @ (-) SetToBag({r})]
  IN  IF ~error THEN permissionsCommit(p1) ELSE p1

\* The save coordinator: an object whose save() returned true is not dirty.
permissionsSaved(p, status) == IF status THEN [p EXCEPT !.isDirty = FALSE] ELSE p

\* A step of the permissions object: the layer is left alone.
PermissionsStep(p, e) ==
  /\ BagCardinality(p.pending) <= MaxPending
  /\ permissions' = p
  /\ ev' = e
  /\ UNCHANGED <<_index, _features, _geojson, _geojson_bk, _propertiesIndex,
                 options, _backupOptions, _referenceVersion, _isDeleted,
                 isDirty, _loaded, _dataloaded, _loading, visible, datalayers,
                 datalayersIndex, pending, alert, accepted>>

EditPermissions ==
  \E status \in Statuses :
    PermissionsStep(editPermissions(permissions, status),
                    [Ev("editPermissions") EXCEPT !.arg = status])

\* save(), called by the save coordinator or directly.
SavePermissions ==
  LET p == permissionsSave(permissions)
  IN  PermissionsStep(p, [Ev("savePermissions") EXCEPT
                            !.sent = IF p.pending = permissions.pending
                                       THEN "none" ELSE "permissions",
                            !.ret = IF p.pending = permissions.pending
                                      THEN "undefined" ELSE "pending"])

PermissionsResponse ==
  \E r \in BagToSet(permissions.pending), error \in BOOLEAN :
    LET p == permissionsSaved(permissionsSaveTail(permissions, r, error), ~error)
    IN  PermissionsStep(p, [Ev(IF error THEN "permissionsFailed"
                                        ELSE "permissionsSaved") EXCEPT
                              !.arg = r,
                              !.ret = IF error THEN "undefined" ELSE "true"])

Init ==
  /\ InitLayer /\ _propertiesIndex = <<>> /\ accepted = Untracked
  /\ permissions = newPermissions("DataLayerPermissions", 1)
  /\ ev = Ev("new")

\* addFeature(feature) for a feature object that is not in the layer.
AddFeatureOf(Es) ==
  \E feature \in Es :
    /\ newStamp(Cur) # 0
    /\ LET w == edited(addFeature(Cur, newStamp(Cur), feature))
       IN  Commit(w, [Ev("addFeature") EXCEPT !.sent = Sent(w)])

AddFeature == AddFeatureOf(Elems)

\* A feature is drawn on a layer that the map lists.
DrawFeature == "self" \in Range(datalayersIndex) /\ AddFeatureOf({1})

\* removeFeature(feature) for a feature object of the layer, or for one that
\* is not in the layer.
RemoveFeature ==
  \E id \in Keys(_features) \cup Range(_index) \cup {Foreign} :
    LET w == edited(removeFeature(Cur, id))
    IN  Commit(w, [Ev(IF id \in Keys(_features) THEN "removeFeature"
                                                 ELSE "removeAbsent")
                     EXCEPT !.ret = "undefined"])

\* The indexProperties(feature) of addFeature, for the feature just built.
IndexProperties ==
  /\ ev.op = "newFeature"
  /\ Commit(indexProperties(Cur, ev.arg),
            [Ev("indexProperties") EXCEPT !.arg = ev.arg])

\* new DataLayer(umap, leafletMap, data) for data without _referenceVersion:
\* a layer with no id is given a fresh one, and a new layer is dirty.
newDataLayer(data) ==
  LET id == IF data.id = NoId THEN OtherId ELSE data.id
      w == setOptions([Cur EXCEPT !._index = <<>>, !._features = NoFeatures,
                                  !._geojson = NoGeo, !._geojson_bk = NoGeo,
                                  !._propertiesIndex = <<>>,
                                  !._loaded = FALSE, !._dataloaded = FALSE,
                                  !._loading = FALSE, !._isDeleted = FALSE,
                                  !._referenceVersion = NoVersion,
                                  !.pending = EmptyBag, !.alert = NoAlert,
                                  !.accepted = Untracked],
                      [data EXCEPT !.id = id])
  IN  [backupOptions(w) EXCEPT !.visible = TRUE, !.isDirty = TRUE]

\* umap.createDataLayer(options): the layer it constructs.
createDataLayer(o) == newDataLayer(o)

\* clone(): the layer returned.
clone(w) ==
  LET o == [w.options EXCEPT !.id = NoId]
      geojson == w._geojson
      datalayer == createDataLayer(o)
  IN  fromGeoJSON(datalayer, geojson)

\* The features of a layer, whatever their order.
featureSet(w) ==
  sortFeatures(toGeoJSONs(w._features, objectKeys(w._features, 1)))

Clone ==
  LET datalayer == clone(Cur)
  IN  Commit(Cur, [Ev("clone") EXCEPT
                     !.arg = [id |-> datalayer.options.id,
                              options |-> datalayer.options,
                              features |-> featureSet(datalayer)]])

\* The elements a collection to import may hold, and the collections.
GeoFeatures == {1, 2, 3, 4}
Collections == UNION {[1..n -> GeoFeatures] : n \in 0..MaxStamp}

\* fromGeoJSON(geojson) of the collection given.
FromGeoJSON ==
  /\ ev.op = "geojson"
  /\ LET w == fromGeoJSON(Cur, Geo(ev.arg))
     IN  Commit(w, [Ev("fromGeoJSON") EXCEPT !.arg = ev.arg,
                                             !.val = w.skipped])

\* umapGeoJSON() of the layer the collection was materialized into.
UmapGeoJSON ==
  /\ ev.op = "fromGeoJSON"
  /\ Commit(Cur, [Ev("umapGeoJSON") EXCEPT
                    !.arg = [given |-> ev.arg,
                             features |-> umapGeoJSON(Cur).feats]])

\* The positions asked for: -1, the positions of a full layer, and positions
\* on either side of them.
Positions == (-2)..MaxStamp

GetFeatureByIndex ==
  \E index \in Positions :
    LET id == getFeatureByIndex(Cur, index)
    IN  Commit(Cur, [Ev("getFeatureByIndex") EXCEPT
                       !.arg = index, !.val = id,
                       !.ret = IF id = 0 THEN "undefined" ELSE "feature"])

\* reindex(), called when the sort key of the map is edited.
Reindex == Commit(reindex(Cur), Ev("reindex"))

Show ==
  /\ ~visible
  /\ LET w == show(Cur)
     IN  Commit(w, [Ev("show") EXCEPT !.sent = Sent(w)])

Hide ==
  /\ visible
  /\ Commit(hide(Cur), Ev("hide"))

Delete ==
  LET w == _delete(Cur)
  IN  Commit(w, [Ev("_delete") EXCEPT !.sent = Sent(w)])

\* The same from the layer's toolbox, which is gone once the layer is deleted.
DeleteLayer == ~_isDeleted /\ Delete

\* save(), called by the save coordinator on an object that is dirty, up to
\* its first await (or to its return, when it awaits nothing).  The coordinator
\* awaits each save() it calls before it calls another.
Save ==
  /\ isDirty
  /\ Awaited("save") \cup Awaited("delete") = {}
  /\ IF _isDeleted
       THEN LET w == saveDelete(Cur)
            IN  IF Sent(w) = "none"
                  THEN Commit(saveManagerSave(w, TRUE),
                              [Ev("saveDelete") EXCEPT !.ret = "true"])
                  ELSE Commit(w, [Ev("saveDelete") EXCEPT !.sent = Sent(w),
                                                            !.ret = "pending"])
       ELSE IF ~isLoaded(Cur)
              THEN Commit(saveManagerSave(Cur, FALSE),
                          [Ev("saveNotLoaded") EXCEPT !.ret = "undefined"])
              ELSE Commit([Cur EXCEPT !.pending =
                             @ (+) SetToBag({Req("save", saveHeaders(Cur),
                                                 umapGeoJSON(Cur).feats, FALSE)})],
                          [Ev("save") EXCEPT !.sent = "save", !.ret = "pending"])

\* The editMode that the metadata of a save response carries.
SavedModes == {"disabled"}

\* The response data of a successful save: the layer's metadata, and the
\* merged geojson when the server has resolved a conflict.
SaveData ==
  {[geojson |-> g, opts |-> [editMode |-> m]] :
     g \in {NoGeo} \cup {Geo(p) : p \in MergedPayloads}, m \in SavedModes}

SaveSuccess ==
  \E r \in Awaited("save"), data \in SaveData, version \in Tokens :
    LET w1 == trySaveSuccess(Without(Cur, r), data, version)
        w2 == saveManagerSave(saveTail(w1, r), TRUE)
        w == serverHolds(w2, IF data.geojson.some THEN data.geojson.feats
                             ELSE r.feats)
    IN  Commit(w, [Ev("saveSuccess") EXCEPT !.hdr = r.hdr, !.version = version,
                                            !.ret = "true",
                                            !.arg = data.geojson])

SaveConflict ==
  \E r \in Awaited("save") :
    LET w1 == trySaveConflict(Without(Cur, r), r)
        w == saveManagerSave(saveTail(w1, r), FALSE)
    IN  Commit(w, [Ev("saveConflict") EXCEPT !.hdr = r.hdr, !.ret = "undefined"])

SaveError ==
  \E r \in Awaited("save") :
    LET w == saveManagerSave(saveTail(Without(Cur, r), r), FALSE)
    IN  Commit(w, [Ev("saveError") EXCEPT !.hdr = r.hdr, !.ret = "undefined"])

\* The user picks "keep your changes" on the conflict alert: its callback runs
\* up to the await of _trySave(url, {}, formData).
Retry ==
  /\ alert.some
  /\ Commit([Cur EXCEPT !.alert = NoAlert,
                        !.pending = @ (+) SetToBag({Req("retry", NoVersion,
                                                        alert.feats, FALSE)})],
            [Ev("retry") EXCEPT !.sent = "retry", !.ret = "pending"])

RetrySuccess ==
  \E r \in Awaited("retry"), data \in SaveData, version \in Tokens :
    LET w1 == retryTail(trySaveSuccess(Without(Cur, r), data, version), TRUE)
        w == serverHolds(w1, IF data.geojson.some THEN data.geojson.feats
                             ELSE r.feats)
    IN  Commit(w, [Ev("retrySuccess") EXCEPT !.hdr = r.hdr, !.version = version,
                                             !.ret = "true",
                                             !.sweep = retrySweeps(TRUE)])

RetryConflict ==
  \E r \in Awaited("retry") :
    LET w == retryTail(trySaveConflict(Without(Cur, r), r), FALSE)
    IN  Commit(w, [Ev("retryConflict") EXCEPT !.hdr = r.hdr, !.ret = "undefined",
                                              !.sweep = retrySweeps(FALSE)])

RetryError ==
  \E r \in Awaited("retry") :
    Commit(retryTail(Without(Cur, r), FALSE),
           [Ev("retryError") EXCEPT !.hdr = r.hdr, !.ret = "undefined",
                                    !.sweep = retrySweeps(FALSE)])

\* The delete request of saveDelete has been answered, with success or not.
DeleteResponse ==
  \E r \in Awaited("delete"), ok \in BOOLEAN :
    Commit(saveManagerSave(saveDeleteTail(Without(Cur, r), ok), TRUE),
           [Ev(IF ok THEN "deleteOk" ELSE "deleteFailed") EXCEPT !.ret = "true"])

\* The read of fetchData succeeded: the version of the response is kept, the
\* editMode of the payload is replaced by the local one, the payload is loaded.
FetchDataSuccessOf(Opts, Ps) ==
  \E r \in Awaited("get"), version \in Tokens, p \in Ps, o \in Opts :
    LET w1 == setReferenceVersion(Without(Cur, r), version)
        w2 == fromUmapGeoJSON(w1, Geo(p), keepEditMode(w1, o))
        w == serverHolds(w2, p)
    IN  Commit(w, [Ev("fetchDataSuccess") EXCEPT !.sent = Sent(w)])

FetchDataSuccess == FetchDataSuccessOf(OptionSet, Payloads)

\* The same, for a server whose layers are not remote layers.
LocalOptions == {o \in OptionSet : ~o.remote}
FetchLocalData == FetchDataSuccessOf(LocalOptions, Payloads)

\* The same, with the collections a save response may carry.
FetchSavedData == FetchDataSuccessOf(LocalOptions, {<<>>} \cup MergedPayloads)

\* The _umap_options a payload may carry: remoteData (remote and dynamic) or
\* not, an editMode or not, the id of the layer or none.
NoOptions == [k \in {} |-> TRUE]

RemoteDataOptions ==
  {NoOptions} \cup
  {("remote" :> o.remote) @@ ("dynamic" :> o.dynamic) : o \in OptionSet}

EditModeOptions == {NoOptions} \cup {("editMode" :> m) : m \in EditModes}

IdOptions == {NoOptions, "id" :> LayerId}

PayloadOptions ==
  {a @@ b @@ c : a \in RemoteDataOptions, b \in EditModeOptions,
                 c \in IdOptions}

\* The read of fetchData succeeded with a payload whose options are o
\* (recorded in ev.arg).
FetchPayload ==
  \E r \in Awaited("get"), version \in Tokens, p \in Payloads,
     o \in PayloadOptions :
    LET w1 == setReferenceVersion(Without(Cur, r), version)
        w == fromUmapGeoJSON(w1, Geo(p), keepEditMode(w1, o))
    IN  Commit(w, [Ev("fetchDataSuccess") EXCEPT !.sent = Sent(w), !.arg = o])

\* fetchData() called directly, up to its await.
FetchData ==
  LET w == fetchData(Cur)
  IN  Commit(w, [Ev("fetchData") EXCEPT !.sent = Sent(w)])

FetchDataError ==
  \E r \in Awaited("get") :
    Commit(Without(Cur, r), Ev("fetchDataError"))

\* restore(version), confirmed in the dialog: the version is requested.
Restore ==
  /\ Awaited("version") = {}
  /\ Commit([Cur EXCEPT !.pending =
                @ (+) SetToBag({Req("version", NoVersion, <<>>, FALSE)})],
            [Ev("restore") EXCEPT !.sent = "version"])

\* The ids that the options of a payload may carry.
PayloadIds == {NoId, LayerId, OtherId}
\* The options of the payload of a version of a layer with local data.
VersionOptions == {[newOptions EXCEPT !.id = i] : i \in PayloadIds}
\* The collections of the payload of a version.
VersionPayloads == {<<>>, <<1>>}

RestoreSuccess ==
  \E r \in Awaited("version"), p \in VersionPayloads, hasOptions \in BOOLEAN,
     o \in VersionOptions :
    /\ hasOptions \/ o = newOptions
    /\ LET w == restoreRead(Without(Cur, r), Geo(p), hasOptions, o)
       IN  Commit(w, [Ev("restoreSuccess") EXCEPT !.sent = Sent(w), !.arg = o])

RestoreError ==
  \E r \in Awaited("version") :
    Commit(Without(Cur, r), Ev("restoreError"))

\* reset(), called by the map on a layer that is dirty when the edits are
\* cancelled.
Reset ==
  /\ isDirty
  /\ LET w == reset(Cur)
     IN  Commit(w, [Ev("reset") EXCEPT !.sent = Sent(w)])

\* The read of fetchData succeeded with a payload of local data whose options
\* carry any id.
FetchVersionData == FetchDataSuccessOf(VersionOptions, VersionPayloads)

\* fetchRemoteData(force) called by the edit panel, by render() or by the map.
FetchRemoteData ==
  \E force \in BOOLEAN :
    LET w == fetchRemoteData(Cur, force, FALSE)
    IN  Commit(w, [Ev("fetchRemoteData") EXCEPT !.force = force, !.sent = Sent(w)])

\* The remote request got an OK response: the layer is cleared and the body
\* handed to the parser; a fetchData awaiting the call then finishes.
\* (ev.arg: the features the layer held when the response arrived.)
RemoteOk ==
  \E r \in Awaited("remote"), p \in Payloads :
    LET w1 == remoteResponse(Without(Cur, r), TRUE, p)
        w == IF r.cont THEN fetchDataDone(w1) ELSE w1
    IN  Commit(w, [Ev("remoteOk") EXCEPT !.arg = featureSet(Cur)])

\* The remote request failed (no response, or a response that is not OK).
RemoteFailed ==
  \E r \in Awaited("remote") :
    LET w1 == remoteResponse(Without(Cur, r), FALSE, <<>>)
        w == IF r.cont THEN fetchDataDone(w1) ELSE w1
    IN  Commit(w, Ev("remoteFailed"))

\* formatter.parse resolved: .then((geojson) => this.fromGeoJSON(geojson))
ParseResolved ==
  \E r \in Awaited("parse") :
    Commit(fromGeoJSON(Without(Cur, r), Geo(r.feats)),
           Ev("parseResolved"))

\* formatter.parse rejected: nothing handles the rejection.
ParseRejected ==
  \E r \in Awaited("parse") :
    Commit(Without(Cur, r), Ev("parseRejected"))

\* ----------------------------------------------------------- specifications
\* The feature index under edits and loads.
IndexNext ==
  \/ AddFeature
  \/ RemoveFeature
  \/ Reindex
  \/ GetFeatureByIndex
  \/ Clone
  \/ FetchData
  \/ Show
  \/ Hide
  \/ FetchLocalData
  \/ FetchDataError

\* A layer that owns its features (no remoteData).
IndexInit == Init /\ ~options.remote

IndexSpec == IndexInit /\ [][IndexNext]_vars

\* The property index: a layer whose index holds the names of the features
\* added so far, and a feature that has been built and is about to be added.
SortedIndexes == {<<>>, <<<<"g">>>>, <<<<"n">>>>, <<<<"g">>, <<"n">>>>}

PropInit ==
  /\ InitLayer /\ options = newOptions /\ ~visible
  /\ _referenceVersion = NoVersion
  /\ _propertiesIndex \in SortedIndexes
  /\ accepted = Untracked
  /\ permissions = newPermissions("DataLayerPermissions", 1)
  /\ ev \in {[Ev("newFeature") EXCEPT !.arg = p] : p \in PropertySets}

PropNext == IndexProperties

\* A non-remote layer just constructed, and a collection to materialize.
RoundTripInit ==
  /\ InitLayer /\ ~options.remote
  /\ _propertiesIndex = <<>>
  /\ accepted = Untracked
  /\ permissions = newPermissions("DataLayerPermissions", 1)
  /\ ev \in {[Ev("geojson") EXCEPT !.arg = c] : c \in Collections}

RoundTripNext ==
  \/ FromGeoJSON
  \/ UmapGeoJSON

RoundTripSpec == RoundTripInit /\ [][RoundTripNext]_vars

PropSpec == PropInit /\ [][PropNext]_vars

\* A layer that is deleted and reset, any number of times.
EraseNext ==
  \/ DrawFeature
  \/ Delete
  \/ Reset
  \/ Show
  \/ Hide
  \/ FetchLocalData
  \/ FetchDataError

EraseSpec == IndexInit /\ [][EraseNext]_vars

\* The permissions of a map or of a layer, edited and saved.
PermissionsInit ==
  /\ InitLayer /\ options = newOptions /\ ~visible
  /\ _referenceVersion # NoVersion
  /\ _propertiesIndex = <<>> /\ accepted = Untracked
  /\ permissions \in {newPermissions(class, status) :
                         class \in {"MapPermissions", "DataLayerPermissions"},
                         status \in Statuses}
  /\ ev = Ev("new")

PermissionsNext ==
  \/ EditPermissions
  \/ SavePermissions
  \/ PermissionsResponse

PermissionsSpec == PermissionsInit /\ [][PermissionsNext]_vars

\* The load of a layer of the server.
LoadInit == Init /\ _referenceVersion # NoVersion

LoadNext ==
  \/ Show
  \/ Hide
  \/ FetchData
  \/ FetchPayload
  \/ FetchDataError

LoadSpec == LoadInit /\ [][LoadNext]_vars

\* The options of a layer under its loads, saves, restores and resets (the
\* conflict and its retry are in SaveSpec).
OptionsNext ==
  \/ Show
  \/ FetchVersionData
  \/ FetchDataError
  \/ Save
  \/ SaveSuccess
  \/ SaveError
  \/ Restore
  \/ RestoreSuccess
  \/ RestoreError
  \/ Reset

OptionsInit ==
  /\ InitLayer /\ ~options.remote /\ ~visible
  /\ _propertiesIndex = <<>> /\ accepted = NoSnapshot
  /\ permissions = newPermissions("DataLayerPermissions", 1)
  /\ ev = Ev("new")

OptionsSpec == OptionsInit /\ [][OptionsNext]_vars

\* The save protocol of a layer that owns its features.
SaveNext ==
  \/ DrawFeature
  \/ DeleteLayer
  \/ Save
  \/ SaveSuccess
  \/ SaveConflict
  \/ SaveError
  \/ Retry
  \/ RetrySuccess
  \/ RetryConflict
  \/ RetryError
  \/ DeleteResponse
  \/ FetchSavedData
  \/ FetchDataError

SaveInit == Init /\ options = newOptions /\ ~visible

SaveSpec == SaveInit /\ [][SaveNext]_vars

\* The same, keeping the snapshot the server last sent or accepted.
SnapshotInit ==
  /\ InitLayer /\ options = newOptions /\ ~visible
  /\ _propertiesIndex = <<>> /\ accepted = NoSnapshot
  /\ permissions = newPermissions("DataLayerPermissions", 1)
  /\ ev = Ev("new")

SnapshotSpec == SnapshotInit /\ [][SaveNext]_vars

\* The load pipeline and the remote-data fetcher.
RemoteNext ==
  \/ Show
  \/ Hide
  \/ FetchDataSuccess
  \/ FetchDataError
  \/ FetchRemoteData
  \/ RemoteOk
  \/ RemoteFailed
  \/ ParseResolved
  \/ ParseRejected

RemoteSpec == Init /\ [][RemoteNext]_vars

\* -------------------------------------------------------------- properties
\* The number of requests of a kind that are awaited.
InFlight(kind) ==
  BagCardinality([r \in Awaited(kind) |-> CopiesIn(r, pending)])

\* Whether seq holds no element twice.
NoDuplicates(seq) == Cardinality(Range(seq)) = Len(seq)

\* C1: after any sequence of addFeature and removeFeature calls, the ids of
\* _index are the keys of _features, and _index holds no id twice.
C1_IndexMatchesFeatures ==
  Range(_index) = Keys(_features) /\ NoDuplicates(_index)

\* C2: a layer saved with no reference version has, once the request has
\* succeeded, the version of the response as its reference version, which is
\* not empty, and is not dirty.
C2_SaveSuccess ==
  (ev.op = "saveSuccess" /\ ev.hdr = NoVersion) =>
     /\ _referenceVersion = ev.version
     /\ _referenceVersion # NoVersion
     /\ ~isDirty

C2_Witness ==
  /\ ev.op = "saveSuccess" /\ ev.hdr = NoVersion
  /\ _referenceVersion = 2 /\ ~isDirty

C4_RetrySuccess ==
  /\ \A r \in Awaited("retry") : r.hdr = NoVersion
  /\ ev.op = "retrySuccess" =>
       (ev.hdr = NoVersion /\ ~isDirty /\ _referenceVersion = ev.version)

C4_Witness ==
  /\ ev.op = "retrySuccess" /\ ev.version = 2
  /\ ~isDirty /\ _referenceVersion = 2 /\ _index # <<>>

\* C5: a save() whose request fails with an error that is not a conflict
\* changes nothing: isDirty, _referenceVersion, options, the features,
\* _geojson and _geojson_bk are what they were, and no request is sent.
C5_ErrorChangesNothing ==
  [][ev'.op = "saveError" =>
       /\ UNCHANGED <<isDirty, _referenceVersion, options, _index, _features>>
       /\ UNCHANGED <<_geojson, _geojson_bk>>
       /\ ev'.sent = "none"]_vars

\* C6: at most one save, retry or delete request of the layer is awaited.
C6_OneInFlight ==
  InFlight("save") + InFlight("retry") + InFlight("delete") <= 1

\* C7: the save() of a deleted layer that has no reference version sends no
\* request, and the layer is then in neither umap.datalayers nor
\* umap.datalayersIndex.
C7_DeleteLocal ==
  (ev.op = "saveDelete" /\ _referenceVersion = NoVersion) =>
     /\ ev.sent = "none"
     /\ ~datalayers
     /\ "self" \notin Range(datalayersIndex)

C7_Witness ==
  /\ ev.op = "saveDelete" /\ _referenceVersion = NoVersion
  /\ ~datalayers /\ _isDeleted

C9_RemoteFetchGuards ==
  ev.sent = "remote" =>
     /\ options.remote
     /\ visible
     /\ (options.dynamic \/ ~_dataloaded \/ ev.force)

C9_Witness ==
  /\ ev.op = "fetchRemoteData" /\ ev.sent = "remote" /\ ev.force
  /\ options.remote /\ ~options.dynamic /\ _dataloaded /\ visible

\* C10: a failed request for remote data leaves _index and _features as they
\* were.
C10_FailureKeepsFeatures ==
  [][ev'.op = "remoteFailed" => UNCHANGED <<_index, _features>>]_vars

C10_Witness ==
  ev.op = "remoteFailed" /\ _index # <<>> /\ Keys(_features) # {}

\* C11: reindex() changes neither the set of ids of _index nor _features, and
\* a second reindex() gives the _index of the first.
C11_ReindexOrderOnly ==
  [][ev'.op = "reindex" =>
       /\ Range(_index') = Range(_index)
       /\ _features' = _features
       /\ LET w == [_index |-> _index', _features |-> _features']
          IN  reindex(w)._index = _index']_vars

\* Whether a sequence of names is in the order of sort().
Sorted(names) ==
  \A i, j \in 1..Len(names) : i <= j => lexLeq(names[i], names[j])

Scalar(kind) == kind \in {"string", "number", "boolean"}
Reserved(name) == name # <<>> /\ Head(name) = "_"

\* C12, as stated: adding a feature leaves in the property index the names it
\* held and the names of the feature whose value is a scalar and that do not
\* start with "_", and no other; the index is sorted and holds no name twice.
C12_IndexedIffScalar ==
  [][ev'.op = "indexProperties" =>
       /\ Range(_propertiesIndex') =
            Range(_propertiesIndex) \cup
              {n \in PropNames : Scalar(ev'.arg[n]) /\ ~Reserved(n)}
       /\ Sorted(_propertiesIndex')
       /\ NoDuplicates(_propertiesIndex')]_vars

\* C12, amended: the same for the names that are not the empty string; the
\* property whose name is empty is never indexed.
C12_IndexedIffScalarNamed ==
  [][ev'.op = "indexProperties" =>
       /\ Range(_propertiesIndex') =
            Range(_propertiesIndex) \cup
              {n \in PropNames : Scalar(ev'.arg[n]) /\ ~Reserved(n) /\ n # <<>>}
       /\ Sorted(_propertiesIndex')
       /\ NoDuplicates(_propertiesIndex')]_vars

C12_Witness ==
  /\ ev.op = "indexProperties"
  /\ ev.arg[<<"n">>] = "string" /\ ev.arg[<<"g">>] = "object"
  /\ ev.arg[<<"_", "n">>] = "number" /\ ev.arg[<<>>] = "boolean"
  /\ _propertiesIndex = <<<<"n">>>>

\* C13: options.id is the id the layer got at construction, whatever fetchData,
\* save, the conflict retry, restore and reset have done.
C13_IdStable == options.id = LayerId

\* C14: after reset() on a layer that has a reference version and a snapshot
\* loaded from or saved to the server, the options and the features are those
\* of that snapshot, and the layer is not dirty.
C14_ResetRestoresSaved ==
  (ev.op = "reset" /\ _referenceVersion # NoVersion /\ accepted.some) =>
     /\ options = accepted.options
     /\ sortFeatures(featuresToGeoJSON(Cur)) = sortFeatures(accepted.feats)
     /\ ~isDirty

\* C15: removeFeature of a feature that is not in the layer fails with an
\* error and leaves _index and _features as they were.
C15_RemoveAbsentFails ==
  [][ev'.op = "removeAbsent" =>
       (ev'.ret = "error" /\ UNCHANGED <<_index, _features>>)]_vars

\* C16: getFeatureByIndex returns the last feature of _index for -1 and the
\* feature at the position for a position of _index, and fails with an
\* IndexError for any other position.
C16_ByIndex ==
  ev.op = "getFeatureByIndex" =>
     LET n == Len(_index)
     IN  IF ev.arg = -1 /\ n > 0
           THEN ev.ret = "feature" /\ ev.val = _index[n]
         ELSE IF ev.arg >= 0 /\ ev.arg < n
           THEN ev.ret = "feature" /\ ev.val = _index[ev.arg + 1]
         ELSE ev.ret = "IndexError"

\* The layer and the requests in flight are what they were.
NothingChanged ==
  UNCHANGED <<_index, _features, _geojson, _geojson_bk, _propertiesIndex,
              options, _backupOptions, _referenceVersion, _isDeleted, isDirty,
              _loaded, _dataloaded, _loading, visible, datalayers,
              datalayersIndex, pending, alert>>

\* save() of a layer that is not deleted.
SavedLive == ev'.op \in {"save", "saveNotLoaded"}

\* C17: save() on a non-deleted layer whose feature data has not been loaded
\* issues no request, changes no state and returns undefined.
C17_SaveNeedsData ==
  [][(SavedLive /\ ~_dataloaded) =>
       (ev'.sent = "none" /\ ev'.ret = "undefined" /\ NothingChanged)]_vars

\* C17, amended: save() on a non-deleted layer that exists on the server and
\* whose metadata has not been loaded issues no request, changes no state and
\* returns undefined.
C17_SaveNeedsMetadata ==
  [][(SavedLive /\ createdOnServer(Cur) /\ ~_loaded) =>
       (ev'.sent = "none" /\ ev'.ret = "undefined" /\ NothingChanged)]_vars

\* save() was called on a dirty layer of the server whose metadata are still
\* being fetched.
C17_Witness ==
  /\ ev.op = "saveNotLoaded"
  /\ createdOnServer(Cur) /\ ~_loaded /\ ~_isDeleted /\ isDirty

\* C18: at most one read of the layer's data is pending at any time (a
\* fetchData call made while one is pending sends nothing).
C18_OneRead == InFlight("get") <= 1

\* fetchData was called, by show(), by the layer becoming dirty or directly,
\* while a read was pending, and sent nothing.
C18_Witness ==
  /\ ev.op \in {"show", "addFeature", "fetchData"}
  /\ ev.sent = "none"
  /\ createdOnServer(Cur) /\ ~_loaded /\ _loading
  /\ InFlight("get") = 1

\* C19: clone() returns a layer whose id differs from the source's, whose
\* options are a copy of the source's and whose features are a copy of the
\* features the source holds now, those added locally included.
C19_CloneCopiesCurrent ==
  ev.op = "clone" =>
     /\ ev.arg.id # options.id
     /\ ev.arg.options = [options EXCEPT !.id = ev.arg.id]
     /\ ev.arg.features = featureSet(Cur)

\* The ids and the geometry kinds of the features of a collection (an element
\* stands for a feature with its id).
featureIds(coll) == Range(coll)
geometryKinds(coll) == {geometryType(coll[i]) : i \in 1..Len(coll)}

\* C20: materializing a collection into a non-remote layer and exporting the
\* layer gives a collection with the same feature ids and geometry kinds.
C20_RoundTrip ==
  ev.op = "umapGeoJSON" =>
     /\ featureIds(ev.arg.features) = featureIds(ev.arg.given)
     /\ geometryKinds(ev.arg.features) = geometryKinds(ev.arg.given)

\* C21: when the response of a remote fetch is OK and the parser rejects its
\* body, the layer holds the features it held before the response.
C21_RejectKeepsFeatures ==
  [][(ev.op = "remoteOk" /\ ev'.op = "parseRejected") =>
       featureSet([_features |-> _features']) = ev.arg]_vars

\* C22: once every response of the remote fetches of a layer has been
\* processed, the layer holds the features parsed from one response.
C22_OneResponse ==
  (/\ ev.op = "parseResolved" /\ options.remote
   /\ InFlight("remote") = 0 /\ InFlight("parse") = 0)
     => featureSet(Cur) \in {sortFeatures(p) : p \in Payloads}

\* The requests a step answered, and those it sent.
Answered == BagToSet(pending (-) pending')
Issued == BagToSet(pending' (-) pending)

\* C23: the conflict alert keeps the snapshot of the save that conflicted; its
\* retry sends that snapshot with no reference header; umap.saveAll() is
\* called when the retry succeeds and only then, and a retry that fails
\* leaves isDirty as it was.
C23_RetrySweep ==
  [][/\ ev'.op \in {"saveConflict", "retryConflict"} =>
          \A r \in Answered : alert' = Geo(r.feats)
     /\ ev'.op = "retry" =>
          /\ Issued # {}
          /\ \A r \in Issued :
                r.kind = "retry" /\ r.hdr = NoVersion /\ r.feats = alert.feats
     /\ ev'.op = "retrySuccess" => ev'.sweep
     /\ ev'.op \in {"retryConflict", "retryError"} =>
          (~ev'.sweep /\ isDirty' = isDirty)]_vars

\* A retry failed on a dirty layer: no sweep, and the layer is still dirty.
C23_Witness ==
  /\ ev.op \in {"retryConflict", "retryError"}
  /\ ev.hdr = NoVersion /\ ~ev.sweep /\ isDirty

\* C24: after a save whose response carried a collection (ev.arg), the layer
\* holds the features of that collection, and a reset() of the layer as it
\* is then gives the features of that collection.
C24_SavedCollection ==
  (ev.op = "saveSuccess" /\ ev.arg.some) =>
     /\ featureSet(Cur) = sortFeatures(ev.arg.feats)
     /\ featureSet(reset(Cur)) = sortFeatures(ev.arg.feats)

\* C25: in every state a deleted layer is dirty.
C25_DeletedDirty == _isDeleted => isDirty

\* C26: a successful fetchData leaves options.editMode as it was, whatever
\* the payload carries, and sets the other options (the id of the layer
\* apart) to those of the payload, or to the defaults where it has none.
C26_EditModeKept ==
  [][ev'.op = "fetchDataSuccess" =>
       /\ options'.editMode = options.editMode
       /\ \A k \in {"remote", "dynamic"} :
            options'[k] = IF k \in DOMAIN ev'.arg THEN ev'.arg[k]
                          ELSE defaultOptions[k]]_vars

\* A layer in "disabled" mode fetched a payload that carries another
\* editMode and no remoteData: it is in "disabled" mode and not remote.
C26_Witness ==
  /\ ev.op = "fetchDataSuccess"
  /\ "editMode" \in DOMAIN ev.arg /\ ev.arg["editMode"] = "advanced"
  /\ options.editMode = "disabled"
  /\ "remote" \notin DOMAIN ev.arg /\ ~options.remote

\* Whether makeFeature builds a feature for the element.
Recognized(e) == featureClass(geometryType(e)) # "none"
Unrecognized(e) == ~Recognized(e)

\* C27: materializing a collection adds one feature for each element of a
\* recognized geometry kind, wherever the element is in the collection, and
\* shows one error for each of the others.
C27_SkipsUnrecognized ==
  ev.op = "fromGeoJSON" =>
     /\ featureSet(Cur) = sortFeatures(SelectSeq(ev.arg, Recognized))
     /\ Len(_index) = Len(SelectSeq(ev.arg, Recognized))
     /\ ev.val = Len(SelectSeq(ev.arg, Unrecognized))

\* A collection of a MultiPoint and a Point was materialized: the MultiPoint,
\* which sorts first, was skipped with an error and the Point was added.
C27_Witness ==
  /\ ev.op = "fromGeoJSON" /\ Range(ev.arg) = {1, 3}
  /\ featureSet(Cur) = <<1>> /\ ev.val = 1

\* C28: a fetchData call on a layer of the server that is not loaded and has
\* no read pending (none sent, or the last one failed) sends a read.
C28_ReadAgainAfterError ==
  [][(/\ ev'.op = "fetchData"
      /\ createdOnServer(Cur) /\ ~_loaded
      /\ Awaited("get") = {}
      /\ \A r \in Awaited("remote") : ~r.cont) => ev'.sent = "get"]_vars

\* C29: a layer of the server that is not dirty holds the options and the
\* features of the snapshot the server last sent or accepted.
C29_CleanIsSaved ==
  (~isDirty /\ createdOnServer(Cur) /\ accepted.some) =>
     /\ options = accepted.options
     /\ featureSet(Cur) = sortFeatures(accepted.feats)

\* The layers of a list other than this one, in the order of the list.
NotSelf(layer) == layer # "self"
otherLayers(index) == SelectSeq(index, NotSelf)

\* C30: _delete() and reset() leave the other layers of datalayersIndex in
\* it, in the same order, whether or not this layer is in the list.
C30_OthersKept ==
  [][ev'.op \in {"_delete", "reset"} =>
       otherLayers(datalayersIndex') = otherLayers(datalayersIndex)]_vars

\* C31: reset() called right after _delete() on a layer of the server leaves
\* the layer not deleted, not dirty, in umap.datalayers and in
\* umap.datalayersIndex.
C31_ResetUndoesDelete ==
  [][(ev.op = "_delete" /\ ev'.op = "reset" /\ createdOnServer(Cur)) =>
       /\ ~_isDeleted' /\ ~isDirty'
       /\ datalayers'
       /\ "self" \in Range(datalayersIndex')]_vars

\* C32: save() of a permissions object that is not dirty sends nothing and
\* returns undefined; the permissions its owner stores change only when a
\* request succeeds, and are then the edited properties; a request that
\* fails leaves them as they were and save() does not return true.
C32_PermissionsSave ==
  [][/\ (ev'.op = "savePermissions" /\ ~permissions.isDirty) =>
          (ev'.sent = "none" /\ ev'.ret = "undefined"
           /\ permissions' = permissions)
     /\ permissions'.stored # permissions.stored => ev'.op = "permissionsSaved"
     /\ ev'.op = "permissionsSaved" =>
          (permissions'.stored = permissions.properties /\ ev'.ret = "true")
     /\ ev'.op = "permissionsFailed" =>
          (permissions'.stored = permissions.stored /\ ev'.ret # "true")]_vars

\* A request failed while the edited properties differ from the stored ones.
C32_Witness ==
  /\ ev.op = "permissionsFailed" /\ ev.ret = "undefined"
  /\ permissions.properties # permissions.stored

====
